---- MODULE Spec2Model ----
(***************************************************************************)
(* Model of torch_xla/csrc/data_ops.cpp: the shape-algebra lowering layer. *)
(* Every Build* function is a pure function of node handles and integer    *)
(* arguments that appends primitive nodes to the builder owning its        *)
(* inputs.  A node is modelled by the value it denotes: a shape and the    *)
(* row-major sequence of its elements.  One behaviour of a specification   *)
(* is one lowering: Init draws the arguments, the actions apply the        *)
(* functions to them and record what each returned and which nodes it      *)
(* appended to the builder.                                                *)
(***************************************************************************)
EXTENDS Integers, Sequences, FiniteSets, TLC

VARIABLES
  args,   \* the arguments of the lowering call (a record; args.op names the family)
  ret     \* function name -> what that call returned and emitted (domain: calls done)

vars == <<args, ret>>

(***************************************************************************)
(* Bounds of the model.                                                    *)
(***************************************************************************)
MaxDimSize == 4        \* largest dimension size of GetCompleteShape's arguments
MaxOutRank == 2        \* longest output_sizes of GetCompleteShape
MaxInRank == 2         \* longest input_sizes of GetCompleteShape
MaxUnselectDim == 5    \* largest size along dim of BuildUnselect's target, and largest start and end
MaxOtherDim == 2       \* largest size of a dimension that is not the operation's dim
MaxStride == 3         \* largest stride of BuildUnselect
MaxSplitDim == 3       \* largest size along dim of BuildSplit's input
MaxSplitSize == 4      \* largest entry of split_sizes
MaxSplits == 3         \* longest split_sizes
MaxRepeatDim == 3      \* largest dimension size of BuildRepeat's input
MaxRepeat == 2         \* largest entry of repeats
MaxRepeatLen == 3      \* longest repeats
MaxResizeDim == 3      \* largest dimension size of BuildResize's input and of size
MaxLayerDim == 2       \* largest dimension size, index and size given to the other operations

(***************************************************************************)
(* Sequences and shapes.                                                   *)
(***************************************************************************)
SeqsUpTo(S, n) == UNION {[1..k -> S] : k \in 0..n}

RECURSIVE Multiply(_)
Multiply(s) == IF s = <<>> THEN 1 ELSE Head(s) * Multiply(Tail(s))

RECURSIVE SumSeq(_)
SumSeq(s) == IF s = <<>> THEN 0 ELSE Head(s) + SumSeq(Tail(s))

\* std::vector::insert(begin() + dim, v), dim counted from 0, 0 <= dim <= size
InsertAt(s, dim, v) == SubSeq(s, 1, dim) \o <<v>> \o SubSeq(s, dim + 1, Len(s))

\* std::vector::erase(begin() + dim), dim counted from 0, 0 <= dim < size
EraseAt(s, dim) == SubSeq(s, 1, dim) \o SubSeq(s, dim + 2, Len(s))

\* s with the entry at 0-based position dim replaced by v
SetAt(s, dim, v) == [k \in 1..Len(s) |-> IF k = dim + 1 THEN v ELSE s[k]]

(***************************************************************************)
(* What a call returns.  outcome is "ok" (value is the returned value),    *)
(* "error" (an XLA_CHECK of this layer failed; err names the error),       *)
(* "prim_error" (a primitive of the IR builder rejected its operands) or   *)
(* "crash" (the call hit undefined behaviour and the process died).        *)
(* emitted lists the kinds of the nodes the call appended to the builder.  *)
(***************************************************************************)
NoValue == <<>>
Ok(v, nodes) == [outcome |-> "ok", err |-> "", value |-> v, emitted |-> nodes]
Error(e, nodes) == [outcome |-> "error", err |-> e, value |-> NoValue, emitted |-> nodes]
PrimError(nodes) == [outcome |-> "prim_error", err |-> "", value |-> NoValue, emitted |-> nodes]
Crash(nodes) == [outcome |-> "crash", err |-> "", value |-> NoValue, emitted |-> nodes]

Called(f) == f \in DOMAIN ret
Record(f, r) == ret' = (f :> r) @@ ret

(***************************************************************************)
(* Nodes.  A node is the array it denotes: its shape and its elements in   *)
(* row-major order.  Invalid is the handle a primitive returns when it     *)
(* rejects its operands; every primitive given an invalid operand returns  *)
(* Invalid.                                                                *)
(***************************************************************************)
Invalid == [shape |-> <<>>, data |-> <<>>]
IsValid(t) == Len(t.data) = Multiply(t.shape)
Rank(t) == Len(t.shape)

\* the multi-index (0-based coordinates) of the 0-based row-major offset k
RECURSIVE Unravel(_, _)
Unravel(k, shape) ==
  IF shape = <<>> THEN <<>>
  ELSE LET rest == Multiply(Tail(shape))
       IN  <<k \div rest>> \o Unravel(k % rest, Tail(shape))

\* the 0-based row-major offset of a multi-index
RECURSIVE Ravel(_, _)
Ravel(idx, shape) ==
  IF shape = <<>> THEN 0
  ELSE Head(idx) * Multiply(Tail(shape)) + Ravel(Tail(idx), Tail(shape))

At(t, idx) == t.data[Ravel(idx, t.shape) + 1]
Indices(shape) == {Unravel(k - 1, shape) : k \in 1..Multiply(shape)}
MakeNode(shape, F(_)) ==
  [shape |-> shape, data |-> [k \in 1..Multiply(shape) |-> F(Unravel(k - 1, shape))]]

\* a parameter node whose elements are pairwise distinct and non-zero:
\* sign, 2*sign, ... in row-major order
Param(shape, sign) == [shape |-> shape, data |-> [k \in 1..Multiply(shape) |-> sign * k]]

\* XlaHelpers::ScalarValue: a rank-0 constant
ScalarValue(v) == [shape |-> <<>>, data |-> <<v>>]

(***************************************************************************)
(* The primitives of the IR builder, by their documented contracts.        *)
(***************************************************************************)
Reshape(t, sizes) ==
  IF IsValid(t) /\ (\A d \in 1..Len(sizes) : sizes[d] >= 0)
     /\ Multiply(sizes) = Multiply(t.shape)
    THEN [shape |-> sizes, data |-> t.data]
    ELSE Invalid

\* xla::Broadcast: the new dimensions lead, the operand's dimensions follow
Broadcast(t, broadcast_sizes) ==
  IF IsValid(t) /\ (\A d \in 1..Len(broadcast_sizes) : broadcast_sizes[d] >= 0)
    THEN MakeNode(broadcast_sizes \o t.shape,
                  LAMBDA idx : At(t, SubSeq(idx, Len(broadcast_sizes) + 1, Len(idx))))
    ELSE Invalid

\* XlaHelpers::ScalarBroadcast: a constant of the given shape
ScalarBroadcast(v, sizes) == Broadcast(ScalarValue(v), sizes)

\* xla::BroadcastInDim: operand dimension i becomes output dimension
\* broadcast_dimensions[i] (0-based) and must have size 1 or the output's size
BroadcastInDim(t, out_sizes, broadcast_dimensions) ==
  IF /\ IsValid(t)
     /\ Len(broadcast_dimensions) = Rank(t)
     /\ \A d \in 1..Len(out_sizes) : out_sizes[d] >= 0
     /\ \A i \in 1..Rank(t) :
          /\ broadcast_dimensions[i] + 1 \in 1..Len(out_sizes)
          /\ t.shape[i] \in {1, out_sizes[broadcast_dimensions[i] + 1]}
    THEN MakeNode(out_sizes,
                  LAMBDA idx : At(t, [i \in 1..Rank(t) |->
                                        IF t.shape[i] = 1 THEN 0
                                        ELSE idx[broadcast_dimensions[i] + 1]]))
    ELSE Invalid

\* one dimension of a PaddingConfig
PadDim(low, interior, high) ==
  [edge_padding_low |-> low, interior_padding |-> interior, edge_padding_high |-> high]

PaddedSize(n, c) ==
  c.edge_padding_low + c.edge_padding_high + n
    + (IF n > 1 THEN (n - 1) * c.interior_padding ELSE 0)

\* xla::Pad: operand element j of a dimension lands at position
\* low + j * (interior + 1); every other position holds the padding value.
\* Negative edge padding removes elements.
Pad(t, padding_value, config) ==
  IF /\ IsValid(t)
     /\ Len(config) = Rank(t)
     /\ \A d \in 1..Rank(t) :
          config[d].interior_padding >= 0 /\ PaddedSize(t.shape[d], config[d]) >= 0
    THEN LET FromOperand(idx) ==
               \A d \in 1..Rank(t) :
                 LET off == idx[d] - config[d].edge_padding_low
                     step == config[d].interior_padding + 1
                 IN  off >= 0 /\ off % step = 0 /\ off \div step < t.shape[d]
             OperandIndex(idx) ==
               [d \in 1..Rank(t) |->
                  (idx[d] - config[d].edge_padding_low)
                    \div (config[d].interior_padding + 1)]
         IN  MakeNode([d \in 1..Rank(t) |-> PaddedSize(t.shape[d], config[d])],
                      LAMBDA idx : IF FromOperand(idx) THEN At(t, OperandIndex(idx))
                                   ELSE padding_value)
    ELSE Invalid

\* xla::Slice
Slice(t, start_indices, limit_indices, strides) ==
  IF /\ IsValid(t)
     /\ Len(start_indices) = Rank(t)
     /\ Len(limit_indices) = Rank(t)
     /\ Len(strides) = Rank(t)
     /\ \A d \in 1..Rank(t) :
          /\ 0 <= start_indices[d]
          /\ start_indices[d] <= limit_indices[d]
          /\ limit_indices[d] <= t.shape[d]
          /\ strides[d] >= 1
    THEN MakeNode([d \in 1..Rank(t) |->
                     (limit_indices[d] - start_indices[d] + strides[d] - 1) \div strides[d]],
                  LAMBDA idx : At(t, [d \in 1..Rank(t) |->
                                        start_indices[d] + idx[d] * strides[d]]))
    ELSE Invalid

\* xla::SliceInDim: Slice along dimno (0-based), every other dimension whole
SliceInDim(t, start_index, limit_index, stride, dimno) ==
  IF IsValid(t) /\ dimno + 1 \in 1..Rank(t)
    THEN Slice(t,
               [d \in 1..Rank(t) |-> IF d = dimno + 1 THEN start_index ELSE 0],
               [d \in 1..Rank(t) |-> IF d = dimno + 1 THEN limit_index ELSE t.shape[d]],
               [d \in 1..Rank(t) |-> IF d = dimno + 1 THEN stride ELSE 1])
    ELSE Invalid

\* the operand and the offset in it that position p of the concatenated
\* dimension comes from
RECURSIVE ConcatSource(_, _, _, _)
ConcatSource(ts, dimension, p, k) ==
  IF p < ts[k].shape[dimension + 1] THEN <<k, p>>
  ELSE ConcatSource(ts, dimension, p - ts[k].shape[dimension + 1], k + 1)

\* xla::ConcatInDim
ConcatInDim(ts, dimension) ==
  IF /\ Len(ts) > 0
     /\ \A k \in 1..Len(ts) : IsValid(ts[k]) /\ Rank(ts[k]) = Rank(ts[1])
     /\ dimension + 1 \in 1..Rank(ts[1])
     /\ \A k \in 1..Len(ts) : \A d \in 1..Rank(ts[1]) :
          d # dimension + 1 => ts[k].shape[d] = ts[1].shape[d]
    THEN MakeNode(SetAt(ts[1].shape, dimension,
                        SumSeq([k \in 1..Len(ts) |-> ts[k].shape[dimension + 1]])),
                  LAMBDA idx : LET src == ConcatSource(ts, dimension, idx[dimension + 1], 1)
                               IN  At(ts[src[1]], SetAt(idx, dimension, src[2])))
    ELSE Invalid

\* xla::Select: element-wise pred ? on_true : on_false
Select(pred, on_true, on_false) ==
  IF /\ IsValid(pred) /\ IsValid(on_true) /\ IsValid(on_false)
     /\ on_true.shape = on_false.shape
     /\ pred.shape = on_true.shape
    THEN [shape |-> on_true.shape,
          data |-> [k \in 1..Len(on_true.data) |->
                      IF pred.data[k] # 0 THEN on_true.data[k] ELSE on_false.data[k]]]
    ELSE Invalid

\* what a function returns when its last primitive produced node t
Returned(t, nodes) == IF IsValid(t) THEN Ok(t, nodes) ELSE PrimError(nodes)

(***************************************************************************)
(* GetCompleteShape (data_ops.cpp 17-49).                                  *)
(***************************************************************************)
IncompleteDims(output_sizes) == {d \in 1..Len(output_sizes) : output_sizes[d] < 0}

\* the loop of lines 22-32: the product of the non-negative entries
RECURSIVE IncompleteElementCount(_)
IncompleteElementCount(output_sizes) ==
  IF output_sizes = <<>> THEN 1
  ELSE (IF Head(output_sizes) < 0 THEN 1 ELSE Head(output_sizes))
       * IncompleteElementCount(Tail(output_sizes))

\* The set of outcomes of GetCompleteShape(output_sizes, input_sizes).  It is
\* a singleton except where line 41 divides by zero, which is undefined: the
\* division traps where the hardware traps (the process dies of SIGFPE), and
\* where it does not, the quotient is 0 and the remainder is the dividend, so
\* that the check passes exactly when total_element_count is 0.
GetCompleteShape(output_sizes, input_sizes) ==
  LET incomplete == IncompleteDims(output_sizes)
      incomplete_element_count == IncompleteElementCount(output_sizes)
      total_element_count == Multiply(input_sizes)
      incomplete_dim == CHOOSE d \in incomplete : TRUE
  IN  IF Cardinality(incomplete) > 1
        THEN {Error("MultipleIncompleteDimensions", <<>>)}
      ELSE IF incomplete = {}
        THEN IF total_element_count = Multiply(output_sizes)
               THEN {Ok(output_sizes, <<>>)}
               ELSE {Error("ShapeElementCountMismatch", <<>>)}
      ELSE IF incomplete_element_count = 0
        THEN {Crash(<<>>),
              IF total_element_count = 0
                THEN Ok(SetAt(output_sizes, incomplete_dim - 1, 0), <<>>)
                ELSE Error("ShapeElementCountMismatch", <<>>)}
      ELSE IF total_element_count % incomplete_element_count # 0
        THEN {Error("ShapeElementCountMismatch", <<>>)}
      ELSE {Ok(SetAt(output_sizes, incomplete_dim - 1,
                     total_element_count \div incomplete_element_count), <<>>)}

CallGetCompleteShape ==
  /\ args.op = "GetCompleteShape"
  /\ ~Called("GetCompleteShape")
  /\ \E r \in GetCompleteShape(args.output_sizes, args.input_sizes) :
       Record("GetCompleteShape", r)
  /\ UNCHANGED args

InitComplete ==
  /\ args \in {[op |-> "GetCompleteShape", output_sizes |-> o, input_sizes |-> i] :
                 o \in SeqsUpTo(-1..MaxDimSize, MaxOutRank),
                 i \in SeqsUpTo(0..MaxDimSize, MaxInRank)}
  /\ ret = <<>>
NextComplete == CallGetCompleteShape
SpecComplete == InitComplete /\ [][NextComplete]_vars

(***************************************************************************)
(* BuildUnselect (data_ops.cpp 226-268).                                   *)
(***************************************************************************)
\* lines 241-246: source_true (a constant and its broadcast), pred_zero, zero
UnselectConstants == <<"Constant", "Broadcast", "Constant", "Constant">>

\* UnselectPaddingConfig with the stride itself as the interior padding
UnselectPaddingConfigInteriorStride(target_shape, source_shape, dim, start, stride) ==
  [d \in 1..Len(target_shape) |->
     IF d = dim + 1
       THEN LET size == start + source_shape[d] + (source_shape[d] - 1) * stride
            IN  PadDim(start, stride, target_shape[d] - size)
       ELSE PadDim(0, 0, 0)]

\* lines 247-264: the padding configuration, for shapes of equal rank
UnselectPaddingConfig(target_shape, source_shape, dim, start, stride) ==
  [d \in 1..Len(target_shape) |->
     IF d = dim + 1
       THEN LET size == start + source_shape[d] + (source_shape[d] - 1) * (stride - 1)
            IN  PadDim(start, stride - 1, target_shape[d] - size)
       ELSE PadDim(0, 0, 0)]

\* lines 239-267: the masked overwrite
UnselectGeneral(target, source, dim, start, stride) ==
  IF \E d \in 1..Rank(target) : d # dim + 1 /\ target.shape[d] # source.shape[d]
    THEN Error("ShapeMismatch", UnselectConstants)
    ELSE LET source_true == ScalarBroadcast(1, source.shape)
             padding_config ==
               UnselectPaddingConfig(target.shape, source.shape, dim, start, stride)
             padded_source == Pad(source, 0, padding_config)
             mask == Pad(source_true, 0, padding_config)
             result == Select(mask, padded_source, target)
         IN  Returned(result,
                      UnselectConstants
                        \o (IF IsValid(mask) THEN <<"Pad", "Pad">> ELSE <<>>)
                        \o (IF IsValid(result) THEN <<"Select">> ELSE <<>>))

\* BuildUnselect whose shortcut leaves out the check of end (line 235)
BuildUnselectNoEndCheck(target, source, dim, start, end, stride) ==
  IF target.shape[dim + 1] = source.shape[dim + 1]
    THEN IF start = 0 /\ stride = 1
           THEN Ok(source, <<>>)
           ELSE Error("FullCoverageWindowMismatch", <<>>)
    ELSE UnselectGeneral(target, source, dim, start, stride)

BuildUnselect(target, source, dim, start, end, stride) ==
  IF target.shape[dim + 1] = source.shape[dim + 1]
    THEN IF start = 0 /\ stride = 1 /\ end = target.shape[dim + 1]
           THEN Ok(source, <<>>)
           ELSE Error("FullCoverageWindowMismatch", <<>>)
    ELSE UnselectGeneral(target, source, dim, start, stride)

\* target and source have the same rank (1 or 2) and 0 <= dim < rank; the
\* target's elements are negative, the source's positive
UnselectCall(target_shape, source_shape, dim, start, end, stride) ==
  [op |-> "BuildUnselect", target |-> Param(target_shape, -1),
   source |-> Param(source_shape, 1),
   dim |-> dim, start |-> start, end |-> end, stride |-> stride]

CallBuildUnselect ==
  /\ args.op = "BuildUnselect"
  /\ ~Called("BuildUnselect")
  /\ Record("BuildUnselect",
            BuildUnselect(args.target, args.source, args.dim,
                          args.start, args.end, args.stride))
  /\ UNCHANGED args

InitUnselect ==
  /\ \E t, n, start, end \in 0..MaxUnselectDim : \E stride \in 0..MaxStride :
       \/ args = UnselectCall(<<t>>, <<n>>, 0, start, end, stride)
       \/ \E a, b \in 1..MaxOtherDim :
            \/ args = UnselectCall(<<t, a>>, <<n, b>>, 0, start, end, stride)
            \/ args = UnselectCall(<<a, t>>, <<b, n>>, 1, start, end, stride)
  /\ ret = <<>>

NextUnselect == CallBuildUnselect
SpecUnselect == InitUnselect /\ [][NextUnselect]_vars

(***************************************************************************)
(* Properties of GetCompleteShape.                                         *)
(***************************************************************************)
\* C1: with at most one negative entry in output_sizes, GetCompleteShape
\* either fails with ShapeElementCountMismatch or returns a sequence as long
\* as output_sizes whose product is the product of input_sizes, the negative
\* entry replaced by that product divided by the product of the other
\* entries and every other entry copied; it has no other outcome.
C1_CompleteOrMismatch ==
  (Called("GetCompleteShape") /\ Cardinality(IncompleteDims(args.output_sizes)) <= 1) =>
    LET r == ret["GetCompleteShape"]
        known == IncompleteElementCount(args.output_sizes)
        total == Multiply(args.input_sizes)
    IN  \/ r.outcome = "error" /\ r.err = "ShapeElementCountMismatch"
        \/ /\ r.outcome = "ok"
           /\ Len(r.value) = Len(args.output_sizes)
           /\ Multiply(r.value) = total
           /\ \A d \in 1..Len(args.output_sizes) :
                IF args.output_sizes[d] < 0
                  THEN known # 0 /\ r.value[d] = total \div known
                  ELSE r.value[d] = args.output_sizes[d]

(***************************************************************************)
(* Properties of BuildUnselect.                                            *)
(***************************************************************************)
\* the number of positions start, start + stride, ... below end
WindowCount(start, end, stride) == (end - start + stride - 1) \div stride

\* the preconditions of the general path
UnselectGeneralPath ==
  /\ args.op = "BuildUnselect"
  /\ args.target.shape[args.dim + 1] # args.source.shape[args.dim + 1]
  /\ \A d \in 1..Rank(args.target) :
       d # args.dim + 1 => args.target.shape[d] = args.source.shape[d]
  /\ args.stride >= 1
  /\ 0 <= args.start /\ args.start < args.end
  /\ args.end <= args.target.shape[args.dim + 1]
  /\ args.source.shape[args.dim + 1] = WindowCount(args.start, args.end, args.stride)

\* C2: in the general path the result has the target's shape; position p of
\* dim holds the source's element (p - start) / stride when p >= start,
\* p - start is a multiple of stride and p < end, and the target's element
\* everywhere else.
C2_UnselectGeneralPath ==
  (Called("BuildUnselect") /\ UnselectGeneralPath) =>
    LET r == ret["BuildUnselect"]
    IN  /\ r.outcome = "ok"
        /\ r.value.shape = args.target.shape
        /\ \A idx \in Indices(args.target.shape) :
             LET p == idx[args.dim + 1]
             IN  At(r.value, idx) =
                   IF p >= args.start /\ (p - args.start) % args.stride = 0 /\ p < args.end
                     THEN At(args.source,
                             SetAt(idx, args.dim, (p - args.start) \div args.stride))
                     ELSE At(args.target, idx)

\* the example of the specification: [0,9,0,9,0] for target [5], source [2],
\* start 1, end 5, stride 2
C2_Witness ==
  /\ Called("BuildUnselect") /\ UnselectGeneralPath
  /\ args.target.shape = <<5>> /\ args.source.shape = <<2>>
  /\ args.start = 1 /\ args.end = 5 /\ args.stride = 2
  /\ ret["BuildUnselect"].outcome = "ok"
  /\ ret["BuildUnselect"].value.data = <<-1, 1, -3, 2, -5>>

UnselectFullCoverage ==
  /\ args.op = "BuildUnselect"
  /\ args.target.shape[args.dim + 1] = args.source.shape[args.dim + 1]

\* C3: when target and source have the same size along dim, BuildUnselect
\* returns the source itself and emits nothing if start = 0, stride = 1 and
\* end = that size, and otherwise fails with FullCoverageWindowMismatch,
\* returning and emitting nothing.
C3_UnselectFastPath ==
  (Called("BuildUnselect") /\ UnselectFullCoverage) =>
    LET r == ret["BuildUnselect"]
    IN  IF args.start = 0 /\ args.stride = 1
           /\ args.end = args.target.shape[args.dim + 1]
          THEN r.outcome = "ok" /\ r.value = args.source /\ r.emitted = <<>>
          ELSE /\ r.outcome = "error" /\ r.err = "FullCoverageWindowMismatch"
               /\ r.value = NoValue /\ r.emitted = <<>>

\* a full-coverage call with only end wrong fails
C3_Witness ==
  /\ Called("BuildUnselect") /\ UnselectFullCoverage
  /\ args.start = 0 /\ args.stride = 1
  /\ args.target.shape[args.dim + 1] >= 2
  /\ args.end # args.target.shape[args.dim + 1]
  /\ ret["BuildUnselect"].err = "FullCoverageWindowMismatch"

(***************************************************************************)
(* BuildCat (data_ops.cpp 119-123).                                        *)
(***************************************************************************)
BuildCat(inputs, dim) ==
  IF Len(inputs) > 0
    THEN LET result == ConcatInDim(inputs, dim)
         IN  Returned(result, IF IsValid(result) THEN <<"Concat">> ELSE <<>>)
    ELSE Error("CHECK_GT(inputs.size(), 0)", <<>>)

(***************************************************************************)
(* ComputeSplitCount (data_ops.cpp 146-158).                               *)
(***************************************************************************)
\* ComputeSplitCount breaking on size >= dim_size
RECURSIVE ComputeSplitCountStrict(_, _)
ComputeSplitCountStrict(dim_size, split_sizes) ==
  IF split_sizes = <<>> \/ Head(split_sizes) >= dim_size THEN 0
  ELSE 1 + ComputeSplitCountStrict(dim_size - Head(split_sizes), Tail(split_sizes))

RECURSIVE ComputeSplitCount(_, _)
ComputeSplitCount(dim_size, split_sizes) ==
  IF split_sizes = <<>> \/ Head(split_sizes) > dim_size THEN 0
  ELSE 1 + ComputeSplitCount(dim_size - Head(split_sizes), Tail(split_sizes))

(***************************************************************************)
(* BuildSplit (data_ops.cpp 160-175).                                      *)
(***************************************************************************)
\* SplitLoop skipping a size that does not fit instead of stopping at it
RECURSIVE SplitLoopSkip(_, _, _, _, _)
SplitLoopSkip(input, split_sizes, dim, dim_size, index) ==
  IF split_sizes = <<>> THEN <<>>
  ELSE IF index + Head(split_sizes) > dim_size
    THEN SplitLoopSkip(input, Tail(split_sizes), dim, dim_size, index)
  ELSE <<SliceInDim(input, index, index + Head(split_sizes), 1, dim)>>
         \o SplitLoopSkip(input, Tail(split_sizes), dim, dim_size, index + Head(split_sizes))

\* SplitLoop that does not advance index
RECURSIVE SplitLoopNoAdvance(_, _, _, _, _)
SplitLoopNoAdvance(input, split_sizes, dim, dim_size, index) ==
  IF split_sizes = <<>> \/ index + Head(split_sizes) > dim_size THEN <<>>
  ELSE <<SliceInDim(input, index, index + Head(split_sizes), 1, dim)>>
         \o SplitLoopNoAdvance(input, Tail(split_sizes), dim, dim_size, index)

\* the loop of lines 167-173, from offset index
RECURSIVE SplitLoop(_, _, _, _, _)
SplitLoop(input, split_sizes, dim, dim_size, index) ==
  IF split_sizes = <<>> \/ index + Head(split_sizes) > dim_size THEN <<>>
  ELSE <<SliceInDim(input, index, index + Head(split_sizes), 1, dim)>>
         \o SplitLoop(input, Tail(split_sizes), dim, dim_size, index + Head(split_sizes))

BuildSplit(input, split_sizes, dim) ==
  IF dim + 1 \notin 1..Rank(input)
    THEN Error("std::out_of_range", <<>>)
    ELSE LET splits == SplitLoop(input, split_sizes, dim, input.shape[dim + 1], 0)
             nodes == [k \in 1..Len(splits) |-> "Slice"]
         IN  IF \A k \in 1..Len(splits) : IsValid(splits[k])
               THEN Ok(splits, nodes)
               ELSE PrimError(nodes)

CallBuildSplit ==
  /\ args.op = "BuildSplit"
  /\ ~Called("BuildSplit")
  /\ Record("BuildSplit", BuildSplit(args.input, args.split_sizes, args.dim))
  /\ UNCHANGED args

\* the caller sizes its outputs with the input's size along dim
CallComputeSplitCount ==
  /\ args.op = "BuildSplit"
  /\ ~Called("ComputeSplitCount")
  /\ args.dim + 1 \in 1..Rank(args.input)
  /\ Record("ComputeSplitCount",
            Ok(ComputeSplitCount(args.input.shape[args.dim + 1], args.split_sizes), <<>>))
  /\ UNCHANGED args

\* the chunks BuildSplit returned, concatenated along the same dim
CallBuildCat ==
  /\ args.op = "BuildSplit"
  /\ Called("BuildSplit") /\ ret["BuildSplit"].outcome = "ok"
  /\ ~Called("BuildCat")
  /\ Record("BuildCat", BuildCat(ret["BuildSplit"].value, args.dim))
  /\ UNCHANGED args

SplitCall(shape, dim, sizes) ==
  [op |-> "BuildSplit", input |-> Param(shape, 1), split_sizes |-> sizes, dim |-> dim]

\* inputs of rank 1 and 2, dim in 0..rank, sizes that are lengths (>= 0)
InitSplit ==
  /\ \E d \in 0..MaxSplitDim : \E ss \in SeqsUpTo(0..MaxSplitSize, MaxSplits) :
       \/ \E dim \in 0..1 : args = SplitCall(<<d>>, dim, ss)
       \/ \E a \in 1..MaxOtherDim :
            \/ args = SplitCall(<<d, a>>, 0, ss)
            \/ args = SplitCall(<<a, d>>, 1, ss)
  /\ ret = <<>>
NextSplit == CallBuildSplit \/ CallComputeSplitCount \/ CallBuildCat
SpecSplit == InitSplit /\ [][NextSplit]_vars

(***************************************************************************)
(* Properties of BuildSplit, ComputeSplitCount and BuildCat.               *)
(***************************************************************************)
SplitDimInRange == args.op = "BuildSplit" /\ args.dim + 1 \in 1..Rank(args.input)

\* the sum of the first j entries
PrefixSum(s, j) == SumSeq(SubSeq(s, 1, j))

\* the largest n such that every prefix sum of the first n sizes is at most d
FittingPrefix(d, sizes) ==
  CHOOSE n \in 0..Len(sizes) :
    /\ \A j \in 1..n : PrefixSum(sizes, j) <= d
    /\ n < Len(sizes) => PrefixSum(sizes, n + 1) > d

\* chunk is the stride-1 sub-range [offset, offset + size) of input along dim
IsSubRange(chunk, input, dim, offset, size) ==
  /\ chunk.shape = SetAt(input.shape, dim, size)
  /\ \A idx \in Indices(chunk.shape) :
       At(chunk, idx) = At(input, SetAt(idx, dim, idx[dim + 1] + offset))

\* C4: BuildSplit raises no error for an oversized request: it returns the
\* chunks of the longest prefix of split_sizes whose running sums stay
\* within the input's size along dim, chunk j being the sub-range that
\* starts at the sum of the sizes before it.
C4_SplitTruncates ==
  (Called("BuildSplit") /\ SplitDimInRange) =>
    LET r == ret["BuildSplit"]
        n == FittingPrefix(args.input.shape[args.dim + 1], args.split_sizes)
    IN  /\ r.outcome = "ok"
        /\ Len(r.value) = n
        /\ n <= Len(args.split_sizes)
        /\ \A j \in 1..n :
             IsSubRange(r.value[j], args.input, args.dim,
                        PrefixSum(args.split_sizes, j - 1), args.split_sizes[j])

\* a size that does not fit ends the split although the next one would fit
C4_Witness ==
  /\ Called("BuildSplit") /\ SplitDimInRange
  /\ args.input.shape[args.dim + 1] = 3
  /\ args.split_sizes = <<1, 3, 1>>
  /\ Len(ret["BuildSplit"].value) = 1

\* C5 as stated: whenever the non-negative sizes sum to the input's size
\* along dim, BuildSplit returns one chunk per size and BuildCat of the
\* chunks along dim is the input.
C5_SplitCatRoundTrip ==
  (/\ SplitDimInRange
   /\ SumSeq(args.split_sizes) = args.input.shape[args.dim + 1]
   /\ Called("BuildSplit")
   /\ ret["BuildSplit"].outcome = "ok" => Called("BuildCat")) =>
    /\ ret["BuildSplit"].outcome = "ok"
    /\ Len(ret["BuildSplit"].value) = Len(args.split_sizes)
    /\ ret["BuildCat"].outcome = "ok"
    /\ ret["BuildCat"].value = args.input

\* C5 amended: the same for a non-empty split_sizes.
C5_SplitCatRoundTripNonEmpty ==
  (/\ SplitDimInRange
   /\ args.split_sizes # <<>>
   /\ SumSeq(args.split_sizes) = args.input.shape[args.dim + 1]
   /\ Called("BuildSplit")
   /\ ret["BuildSplit"].outcome = "ok" => Called("BuildCat")) =>
    /\ ret["BuildSplit"].outcome = "ok"
    /\ Len(ret["BuildSplit"].value) = Len(args.split_sizes)
    /\ ret["BuildCat"].outcome = "ok"
    /\ ret["BuildCat"].value = args.input

\* a rank-2 input split in three chunks, one of them empty, and concatenated
C5_Witness ==
  /\ SplitDimInRange
  /\ Rank(args.input) = 2
  /\ args.split_sizes = <<1, 0, 2>>
  /\ args.input.shape[args.dim + 1] = 3
  /\ Called("BuildCat")
  /\ ret["BuildCat"].value = args.input

\* C10: ComputeSplitCount of the input's size along dim and split_sizes is
\* the number of chunks BuildSplit returns for them.
C10_CountMatchesSplit ==
  (Called("BuildSplit") /\ Called("ComputeSplitCount")) =>
    /\ ret["BuildSplit"].outcome = "ok"
    /\ ret["ComputeSplitCount"].value = Len(ret["BuildSplit"].value)

\* both stop at a size larger than what remains, after a zero and with a
\* size that would fit behind it
C10_Witness ==
  /\ Called("BuildSplit") /\ Called("ComputeSplitCount")
  /\ args.input.shape[args.dim + 1] = 2
  /\ args.split_sizes = <<0, 2, 1>>
  /\ ret["ComputeSplitCount"].value = 2
  /\ Len(ret["BuildSplit"].value) = 2

(***************************************************************************)
(* BuildRepeat (data_ops.cpp 125-144).                                     *)
(***************************************************************************)
\* std::vector<XlaOp>(n, t): n copies of t
Copies(n, t) == [k \in 1..n |-> t]

\* RepeatLoop taking every tile count from the first tiled position
RECURSIVE RepeatLoopFirstCount(_, _, _, _, _)
RepeatLoopFirstCount(repeated, repeats, broadcast_dims, rank, dim) ==
  IF dim >= rank THEN repeated
  ELSE RepeatLoopFirstCount(
         ConcatInDim(Copies(repeats[broadcast_dims + 1], repeated), dim),
         repeats, broadcast_dims, rank, dim + 1)

\* the loop of lines 133-137, from dimension dim
RECURSIVE RepeatLoop(_, _, _, _, _)
RepeatLoop(repeated, repeats, broadcast_dims, rank, dim) ==
  IF dim >= rank THEN repeated
  ELSE RepeatLoop(ConcatInDim(Copies(repeats[broadcast_dims + dim + 1], repeated), dim),
                  repeats, broadcast_dims, rank, dim + 1)

\* BuildRepeat rejecting repeats exactly as long as the rank
BuildRepeatStrictRank(input, repeats) ==
  IF Len(repeats) <= Rank(input)
    THEN Error("RankMismatch", <<>>)
    ELSE LET broadcast_dims == Len(repeats) - Rank(input)
             tiled == RepeatLoop(input, repeats, broadcast_dims, Rank(input), 0)
             repeated == Broadcast(tiled, SubSeq(repeats, 1, broadcast_dims))
         IN  Returned(repeated,
                      IF IsValid(repeated)
                        THEN [k \in 1..Rank(input) |-> "Concat"] \o <<"Broadcast">>
                        ELSE <<>>)

BuildRepeat(input, repeats) ==
  IF Len(repeats) < Rank(input)
    THEN Error("RankMismatch", <<>>)
    ELSE LET broadcast_dims == Len(repeats) - Rank(input)
             tiled == RepeatLoop(input, repeats, broadcast_dims, Rank(input), 0)
             repeated == IF Len(repeats) > Rank(input)
                           THEN Broadcast(tiled, SubSeq(repeats, 1, broadcast_dims))
                           ELSE tiled
         IN  Returned(repeated,
                      IF IsValid(repeated)
                        THEN [k \in 1..Rank(input) |-> "Concat"]
                               \o (IF Len(repeats) > Rank(input)
                                     THEN <<"Broadcast">> ELSE <<>>)
                        ELSE <<>>)

CallBuildRepeat ==
  /\ args.op = "BuildRepeat"
  /\ ~Called("BuildRepeat")
  /\ Record("BuildRepeat", BuildRepeat(args.input, args.repeats))
  /\ UNCHANGED args

\* inputs of rank 0 to 2, tile counts that are counts (>= 0)
InitRepeat ==
  /\ args \in {[op |-> "BuildRepeat", input |-> Param(shape, 1), repeats |-> r] :
                 shape \in SeqsUpTo(0..MaxRepeatDim, 2),
                 r \in SeqsUpTo(0..MaxRepeat, MaxRepeatLen)}
  /\ ret = <<>>
NextRepeat == CallBuildRepeat
SpecRepeat == InitRepeat /\ [][NextRepeat]_vars

(***************************************************************************)
(* Properties of BuildRepeat.                                              *)
(***************************************************************************)
\* rows 0 and 1 of a node with four rows equal its rows 2 and 3
RowsRepeat(t) ==
  \A idx \in Indices(t.shape) :
    idx[1] < 2 => At(t, idx) = At(t, SetAt(idx, 0, idx[1] + 2))

\* C6 as stated: BuildRepeat of an input of shape [2,3] with repeats [2]
\* succeeds with a node of shape [4,3] whose rows 0 and 1 equal its rows 2
\* and 3.
C6_RepeatExample ==
  (Called("BuildRepeat") /\ args.input.shape = <<2, 3>> /\ args.repeats = <<2>>) =>
    /\ ret["BuildRepeat"].outcome = "ok"
    /\ ret["BuildRepeat"].value.shape = <<4, 3>>
    /\ RowsRepeat(ret["BuildRepeat"].value)

\* C6 amended: the same for repeats [2,1]; with repeats [2] the call fails
\* with the rank error and emits nothing.
C6_RepeatExampleFullRank ==
  /\ (Called("BuildRepeat") /\ args.input.shape = <<2, 3>> /\ args.repeats = <<2, 1>>) =>
       /\ ret["BuildRepeat"].outcome = "ok"
       /\ ret["BuildRepeat"].value.shape = <<4, 3>>
       /\ RowsRepeat(ret["BuildRepeat"].value)
       /\ \A idx \in Indices(<<2, 3>>) :
            At(ret["BuildRepeat"].value, idx) = At(args.input, idx)
  /\ (Called("BuildRepeat") /\ args.input.shape = <<2, 3>> /\ args.repeats = <<2>>) =>
       ret["BuildRepeat"] = Error("RankMismatch", <<>>)

C6_Witness ==
  /\ Called("BuildRepeat") /\ args.input.shape = <<2, 3>> /\ args.repeats = <<2, 1>>
  /\ ret["BuildRepeat"].outcome = "ok"
  /\ ret["BuildRepeat"].value.data = <<1, 2, 3, 4, 5, 6, 1, 2, 3, 4, 5, 6>>

\* C9: with len(repeats) >= rank and every entry >= 1, BuildRepeat returns a
\* node whose shape is the leading extra entries of repeats followed by each
\* input size times its tile count, and whose element at an index is the
\* input's element at the trailing coordinates taken modulo the input's sizes.
C9_RepeatTiles ==
  (/\ Called("BuildRepeat")
   /\ Len(args.repeats) >= Rank(args.input)
   /\ \A k \in 1..Len(args.repeats) : args.repeats[k] >= 1) =>
    LET r == ret["BuildRepeat"]
        rank == Rank(args.input)
        extra == Len(args.repeats) - rank
    IN  /\ r.outcome = "ok"
        /\ r.value.shape =
             [k \in 1..Len(args.repeats) |->
                IF k <= extra THEN args.repeats[k]
                ELSE args.input.shape[k - extra] * args.repeats[k]]
        /\ \A idx \in Indices(r.value.shape) :
             At(r.value, idx) =
               At(args.input, [k \in 1..rank |-> idx[extra + k] % args.input.shape[k]])
        /\ \A k \in 1..rank :
             args.repeats[extra + k] = 1 => r.value.shape[extra + k] = args.input.shape[k]

\* one new leading dimension, one dimension tiled, one left alone
C9_Witness ==
  /\ Called("BuildRepeat")
  /\ args.input.shape = <<2, 3>> /\ args.repeats = <<2, 2, 1>>
  /\ ret["BuildRepeat"].outcome = "ok"
  /\ ret["BuildRepeat"].value.shape = <<2, 4, 3>>

(***************************************************************************)
(* BuildResize (data_ops.cpp 204-224).                                     *)
(***************************************************************************)
\* BuildResize padding at the low edge
BuildResizePadLow(input, size) ==
  LET num_elements == Multiply(input.shape)
      r1_input == Reshape(input, <<num_elements>>)
      new_num_elements == Multiply(size)
      resized_input ==
        IF num_elements > new_num_elements
          THEN SliceInDim(r1_input, 0, new_num_elements, 1, 0)
        ELSE IF new_num_elements > num_elements
          THEN Pad(r1_input, 0, <<PadDim(new_num_elements - num_elements, 0, 0)>>)
        ELSE input
      result == Reshape(resized_input, size)
  IN  Returned(result,
               <<"Reshape">>
                 \o (IF num_elements > new_num_elements THEN <<"Slice">>
                     ELSE IF new_num_elements > num_elements THEN <<"Constant", "Pad">>
                     ELSE <<>>)
                 \o (IF IsValid(result) THEN <<"Reshape">> ELSE <<>>))

BuildResize(input, size) ==
  LET num_elements == Multiply(input.shape)
      r1_input == Reshape(input, <<num_elements>>)
      new_num_elements == Multiply(size)
      resized_input ==
        IF num_elements > new_num_elements
          THEN SliceInDim(r1_input, 0, new_num_elements, 1, 0)
        ELSE IF new_num_elements > num_elements
          THEN Pad(r1_input, 0, <<PadDim(0, 0, new_num_elements - num_elements)>>)
        ELSE input
      result == Reshape(resized_input, size)
  IN  Returned(result,
               <<"Reshape">>
                 \o (IF num_elements > new_num_elements THEN <<"Slice">>
                     ELSE IF new_num_elements > num_elements THEN <<"Constant", "Pad">>
                     ELSE <<>>)
                 \o (IF IsValid(result) THEN <<"Reshape">> ELSE <<>>))

CallBuildResize ==
  /\ args.op = "BuildResize"
  /\ ~Called("BuildResize")
  /\ Record("BuildResize", BuildResize(args.input, args.size))
  /\ UNCHANGED args

\* the resized node resized to the sizes of the input
CallBuildResizeBack ==
  /\ args.op = "BuildResize"
  /\ Called("BuildResize") /\ ret["BuildResize"].outcome = "ok"
  /\ ~Called("BuildResizeBack")
  /\ Record("BuildResizeBack", BuildResize(ret["BuildResize"].value, args.input.shape))
  /\ UNCHANGED args

\* inputs and sizes of rank 0 to 2
InitResize ==
  /\ args \in {[op |-> "BuildResize", input |-> Param(shape, 1), size |-> size] :
                 shape \in SeqsUpTo(0..MaxResizeDim, 2),
                 size \in SeqsUpTo(0..MaxResizeDim, 2)}
  /\ ret = <<>>
NextResize == CallBuildResize \/ CallBuildResizeBack
SpecResize == InitResize /\ [][NextResize]_vars

(***************************************************************************)
(* Properties of BuildResize.                                              *)
(***************************************************************************)
\* the first min(n, m) elements of e followed by max(0, m - n) zeros
Resized(e, m) == [k \in 1..m |-> IF k <= Len(e) THEN e[k] ELSE 0]

\* C7: BuildResize returns a node of shape size whose elements are the
\* first min(n, m) elements of the input followed by max(0, m - n) zeros;
\* resizing to the input's own sizes returns its elements, and resizing to
\* at least as many elements and back returns the input.
C7_ResizePrefix ==
  /\ Called("BuildResize") =>
       LET r == ret["BuildResize"]
       IN  /\ r.outcome = "ok"
           /\ r.value.shape = args.size
           /\ r.value.data = Resized(args.input.data, Multiply(args.size))
           /\ args.size = args.input.shape => r.value = args.input
  /\ (Called("BuildResizeBack") /\ Multiply(args.size) >= Multiply(args.input.shape)) =>
       /\ ret["BuildResizeBack"].outcome = "ok"
       /\ ret["BuildResizeBack"].value = args.input

\* six elements resized to eight and back
C7_Witness ==
  /\ Called("BuildResizeBack")
  /\ args.input.shape = <<2, 3>> /\ args.size = <<3, 3>>
  /\ ret["BuildResize"].value.data = <<1, 2, 3, 4, 5, 6, 0, 0, 0>>
  /\ ret["BuildResizeBack"].value = args.input

(***************************************************************************)
(* The other operations of the layer.                                      *)
(***************************************************************************)
\* BuildView (data_ops.cpp 51-57): the set of its outcomes
BuildView(input, output_sizes) ==
  {IF c.outcome = "ok"
     THEN LET result == Reshape(input, c.value)
          IN  Returned(result, IF IsValid(result) THEN <<"Reshape">> ELSE <<>>)
     ELSE c :
   c \in GetCompleteShape(output_sizes, input.shape)}

\* SqueezeTrivialDimension (data_ops.cpp 59-67); dim is unsigned
SqueezeTrivialDimension(input, dim) ==
  IF ~(dim < Rank(input)) THEN Error("DimensionOutOfRange", <<>>)
  ELSE IF input.shape[dim + 1] # 1 THEN Ok(input, <<>>)
  ELSE Returned(Reshape(input, EraseAt(input.shape, dim)), <<"Reshape">>)

\* BuildExpand (data_ops.cpp 79-90)
BuildExpand(input, output_sizes) ==
  IF ~(Rank(input) <= Len(output_sizes)) THEN Error("RankMismatch", <<>>)
  ELSE LET input_sizes ==
             [k \in 1..(Len(output_sizes) - Rank(input)) |-> 1] \o input.shape
           implicit_reshape == Reshape(input, input_sizes)
           result == BroadcastInDim(implicit_reshape, output_sizes,
                                    [k \in 1..Len(output_sizes) |-> k - 1])
       IN  Returned(result,
                    <<"Reshape">> \o (IF IsValid(result) THEN <<"Broadcast">> ELSE <<>>))

\* BuildUnsqueezeDimensions and BuildUnsqueeze (data_ops.cpp 92-104); dim is unsigned
BuildUnsqueeze(input, dim) ==
  IF ~(dim <= Rank(input)) THEN Error("DimensionOutOfRange", <<>>)
  ELSE Returned(Reshape(input, InsertAt(input.shape, dim, 1)), <<"Reshape">>)

\* BuildStack (data_ops.cpp 106-117): the set of its outcomes.  Line 113
\* inserts at begin() + dim unchecked; outside [0, rank] that is undefined:
\* the process dies, or the sizes handed to Reshape hold garbage and the
\* primitive rejects them.
BuildStack(inputs, dim) ==
  IF ~(Len(inputs) > 0) THEN {Error("CHECK_GT(inputs.size(), 0)", <<>>)}
  ELSE IF \E i \in 1..Len(inputs) : dim \notin 0..Rank(inputs[i])
    THEN {Crash(<<>>), PrimError(<<>>)}
  ELSE LET reshaped_inputs ==
             [i \in 1..Len(inputs) |->
                Reshape(inputs[i], InsertAt(inputs[i].shape, dim, 1))]
           result == ConcatInDim(reshaped_inputs, dim)
       IN  {Returned(result,
                     [i \in 1..Len(inputs) |-> "Reshape"]
                       \o (IF IsValid(result) THEN <<"Concat">> ELSE <<>>))}

\* BuildSlice (data_ops.cpp 191-202)
BuildSlice(input, base_indices, sizes) ==
  IF Len(base_indices) # Len(sizes)
    THEN Error("CHECK_EQ(base_indices.size(), sizes.size())", <<>>)
    ELSE LET limit_indices == [d \in 1..Len(base_indices) |-> base_indices[d] + sizes[d]]
             strides == [d \in 1..Len(base_indices) |-> 1]
             result == Slice(input, base_indices, limit_indices, strides)
         IN  Returned(result, IF IsValid(result) THEN <<"Slice">> ELSE <<>>)

InitLayer ==
  /\ \E shape \in SeqsUpTo(0..MaxLayerDim, 2) :
       \/ \E o \in SeqsUpTo(-1..MaxLayerDim, 2) :
            args = [op |-> "BuildView", input |-> Param(shape, 1), output_sizes |-> o]
       \/ \E f \in {"SqueezeTrivialDimension", "BuildUnsqueeze"} :
          \E dim \in 0..(MaxLayerDim + 1) :
            args = [op |-> f, input |-> Param(shape, 1), dim |-> dim]
       \/ \E o \in SeqsUpTo(0..MaxLayerDim, 3) :
            args = [op |-> "BuildExpand", input |-> Param(shape, 1), output_sizes |-> o]
       \/ \E f \in {"BuildStack", "BuildCat"} :
          \E n \in 0..2 : \E dim \in -1..(MaxLayerDim + 1) :
            args = [op |-> f, inputs |-> [k \in 1..n |-> Param(shape, k)], dim |-> dim]
       \/ \E b, z \in SeqsUpTo(0..MaxLayerDim, 2) :
            args = [op |-> "BuildSlice", input |-> Param(shape, 1),
                    base_indices |-> b, sizes |-> z]
  /\ ret = <<>>

CallBuildView ==
  /\ args.op = "BuildView"
  /\ ~Called("BuildView")
  /\ \E r \in BuildView(args.input, args.output_sizes) : Record("BuildView", r)
  /\ UNCHANGED args

CallSqueezeTrivialDimension ==
  /\ args.op = "SqueezeTrivialDimension"
  /\ ~Called("SqueezeTrivialDimension")
  /\ Record("SqueezeTrivialDimension", SqueezeTrivialDimension(args.input, args.dim))
  /\ UNCHANGED args

CallBuildExpand ==
  /\ args.op = "BuildExpand"
  /\ ~Called("BuildExpand")
  /\ Record("BuildExpand", BuildExpand(args.input, args.output_sizes))
  /\ UNCHANGED args

CallBuildUnsqueeze ==
  /\ args.op = "BuildUnsqueeze"
  /\ ~Called("BuildUnsqueeze")
  /\ Record("BuildUnsqueeze", BuildUnsqueeze(args.input, args.dim))
  /\ UNCHANGED args

CallBuildStack ==
  /\ args.op = "BuildStack"
  /\ ~Called("BuildStack")
  /\ \E r \in BuildStack(args.inputs, args.dim) : Record("BuildStack", r)
  /\ UNCHANGED args

\* BuildCat called on its own
CallBuildCatOf ==
  /\ args.op = "BuildCat"
  /\ ~Called("BuildCat")
  /\ Record("BuildCat", BuildCat(args.inputs, args.dim))
  /\ UNCHANGED args

CallBuildSlice ==
  /\ args.op = "BuildSlice"
  /\ ~Called("BuildSlice")
  /\ Record("BuildSlice", BuildSlice(args.input, args.base_indices, args.sizes))
  /\ UNCHANGED args

(***************************************************************************)
(* The layer: any one lowering.                                            *)
(***************************************************************************)
Init ==
  \/ InitComplete
  \/ InitUnselect
  \/ InitSplit
  \/ InitRepeat
  \/ InitResize
  \/ InitLayer

Next ==
  \/ CallGetCompleteShape
  \/ CallBuildView
  \/ CallSqueezeTrivialDimension
  \/ CallBuildExpand
  \/ CallBuildUnsqueeze
  \/ CallBuildStack
  \/ CallBuildCatOf
  \/ CallBuildRepeat
  \/ CallComputeSplitCount
  \/ CallBuildSplit
  \/ CallBuildCat
  \/ CallBuildSlice
  \/ CallBuildResize
  \/ CallBuildResizeBack
  \/ CallBuildUnselect

Spec == Init /\ [][Next]_vars

(***************************************************************************)
(* Properties of the layer's failures.                                     *)
(***************************************************************************)
\* C8: a call that fails with one of the layer's precondition errors has
\* emitted no node; in particular BuildUnselect failing with ShapeMismatch
\* has emitted nothing, and BuildStack with dim outside [0, rank] fails with
\* such an error, having emitted nothing.
C8_FailuresEmitNothing ==
  /\ \A f \in DOMAIN ret : ret[f].outcome = "error" => ret[f].emitted = <<>>
  /\ (/\ Called("BuildStack")
      /\ Len(args.inputs) > 0
      /\ \E i \in 1..Len(args.inputs) : args.dim \notin 0..Rank(args.inputs[i])) =>
       ret["BuildStack"].outcome = "error" /\ ret["BuildStack"].emitted = <<>>

====
